---- MODULE Spec2Model ----
(***************************************************************************)
(* Model of neurapy/neuralynx/lynxio.py: the raw-digitizer (.nrd) packet   *)
(* extractors extract_nrd_ec / extract_nrd_fast with their resync helper   *)
(* seek_packet, and the epoch splitter nrd2mda_epochs.                     *)
(*                                                                         *)
(* Files are sequences of bytes (0..255).  A 32-bit word is the sequence   *)
(* of its 4 little-endian bytes and a uint64 the sequence of its 8         *)
(* little-endian bytes, so no value ever exceeds the checker's integers.   *)
(* Positions are byte offsets counted from the end of the 16 KiB header    *)
(* that read_header consumes before any packet is looked for.              *)
(***************************************************************************)
EXTENDS Integers, Sequences, FiniteSets, TLC

\* ------------------------------------------------------------ bounds
\* longest byte stream given to seek_packet alone
MaxStream == 8

\* ------------------------------------------------------------ bytes and words
Min(a, b) == IF a < b THEN a ELSE b

Max(a, b) == IF a > b THEN a ELSE b

\* n as k little-endian bytes (what numpy writes for an integer of k bytes)
RECURSIVE LE(_, _)
LE(n, k) == IF k = 0 THEN <<>> ELSE <<n % 256>> \o LE(n \div 256, k - 1)

\* the start-of-packet magic number 2048 as it lies in the file: 00 08 00 00
MAGIC == <<0, 8, 0, 0>>

\* unsigned order of two little-endian byte sequences of the same length
RECURSIVE ULess(_, _)
ULess(a, b) ==
    IF Len(a) = 0 THEN FALSE
    ELSE LET n == Len(a) IN
         IF a[n] # b[n] THEN a[n] < b[n]
         ELSE ULess(SubSeq(a, 1, n - 1), SubSeq(b, 1, n - 1))

\* f.read(4) at byte offset p: the bytes p .. p+3 that exist
Read4(f, p) == SubSeq(f, p + 1, Min(p + 4, Len(f)))

\* ------------------------------------------------------------ packet layout
\* total A/D channels of the system (parameter channels) and the channels asked for
channels == 2

channel_list == <<1, 0>>

\* the 10 words of the extra field
ExtraWords == 10

\* make_nrd_packet(channels): the fields of the dtype in order, each with its
\* number of 32-bit words
make_nrd_packet(C) ==
    << <<"stx", 1>>, <<"pkt_id", 1>>, <<"pkt_data_size", 1>>,
       <<"timestamp high", 1>>, <<"timestamp low", 1>>, <<"status", 1>>,
       <<"ttl", 1>>, <<"extra", ExtraWords>>, <<"data", C>>, <<"crc", 1>> >>

nrd_packet == make_nrd_packet(channels)

RECURSIVE WordsUpTo(_, _)
WordsUpTo(layout, k) ==
    IF k = 0 THEN 0 ELSE WordsUpTo(layout, k - 1) + layout[k][2]

\* nrd_packet.itemsize, in bytes
packet_size == 4 * WordsUpTo(nrd_packet, Len(nrd_packet))

FieldIndex(name) == CHOOSE k \in 1 .. Len(nrd_packet) : nrd_packet[k][1] = name

\* packets[name] of one decoded packet p (its bytes): the bytes of that field
Field(p, name) ==
    LET k == FieldIndex(name)
        off == 4 * WordsUpTo(nrd_packet, k - 1)
    IN SubSeq(p, off + 1, off + 4 * nrd_packet[k][2])

\* the w-th 32-bit word (from 0) of a byte sequence
Word(b, w) == SubSeq(b, 4 * w + 1, 4 * w + 4)

\* (timestamp high << 32) | timestamp low as a uint64: low half first
Timestamp(p) == Field(p, "timestamp low") \o Field(p, "timestamp high")

\* the channel after the one asked for
Chan_off_by_one(p, ch) == Word(Field(p, "data"), (ch + 1) % channels)

\* these_packets['data'][:, ch] for one packet
Chan(p, ch) == Word(Field(p, "data"), ch)

\* a read that stops one packet short of the count asked for
fromfile_one_short(f, p, count) ==
    LET avail == IF Len(f) > p THEN Len(f) - p ELSE 0
        n == Min(count - 1, avail \div packet_size)
    IN [packets |-> [i \in 1 .. n |->
                        SubSeq(f, p + (i - 1) * packet_size + 1, p + i * packet_size)],
        pos |-> p + n * packet_size]

\* np.fromfile(f, dtype=nrd_packet, count=count) at offset p: the whole packets
\* that the next count * packet_size bytes hold, and the cursor after the read
\* (fread consumes a trailing partial packet)
fromfile(f, p, count) ==
    LET avail == IF Len(f) > p THEN Len(f) - p ELSE 0
        n == Min(count, avail \div packet_size)
    IN [packets |-> [i \in 1 .. n |->
                        SubSeq(f, p + (i - 1) * packet_size + 1, p + i * packet_size)],
        pos |-> p + Min(count * packet_size, avail)]

\* ------------------------------------------------------------ xor crc
RECURSIVE XorN(_, _)
XorN(a, b) ==
    IF a = 0 THEN b
    ELSE IF b = 0 THEN a
    ELSE ((a + b) % 2) + 2 * XorN(a \div 2, b \div 2)

XorWord(u, v) == [i \in 1 .. 4 |-> XorN(u[i], v[i])]

\* field32: one row per 32-bit word of every field of the dtype, in order
field32(p) == [w \in 1 .. Len(p) \div 4 |-> Word(p, w - 1)]

RECURSIVE XorRows(_, _)
XorRows(rows, k) ==
    IF k = 0 THEN <<0, 0, 0, 0>>
    ELSE XorWord(XorRows(rows, k - 1), rows[k])

\* the reduction with the trailing crc row left out
crc_of_no_trailer(p) == XorRows(field32(p), Len(field32(p)) - 1)

\* crc = zeros; for idx in range(field32.shape[0]): crc ^= field32[idx, :]
crc_of(p) == XorRows(field32(p), Len(field32(p)))

\* ------------------------------------------------------------ validation
\* these_packets['stx'] != 2048
bad_stx(p) == Field(p, "stx") # MAGIC

\* these_packets['pkt_id'] != 1
bad_id(p) == Field(p, "pkt_id") # LE(1, 4)

\* these_packets['pkt_data_size'] != 10 + channels
bad_size(p) == Field(p, "pkt_data_size") # LE(10 + channels, 4)

\* crc != 0
bad_crc(p) == crc_of(p) # <<0, 0, 0, 0>>

\* the condition of the check that feeds the named counter, on one packet
fails(p, counter) ==
    CASE counter = "stx_err_cnt" -> bad_stx(p)
      [] counter = "pkt_id_err_cnt" -> bad_id(p)
      [] counter = "pkt_size_err_cnt" -> bad_size(p)
      [] counter = "pkt_crc_err_cnt" -> bad_crc(p)

\* np.argwhere(cond)[0] over a batch b: the first index (from 0) of a packet for
\* which the check fails, -1 when argwhere is empty
FirstIdx(b, counter) ==
    LET idx == {i \in 1 .. Len(b) : fails(b[i], counter)}
    IN IF idx # {} THEN (CHOOSE i \in idx : \A j \in idx : i <= j) - 1 ELSE -1

\* the state of the validation block: the surviving prefix, all_packets_good
\* and the increment of each error counter
NoErr == [stx_err_cnt |-> 0, pkt_id_err_cnt |-> 0, pkt_size_err_cnt |-> 0,
          pkt_crc_err_cnt |-> 0, pkt_ts_err_cnt |-> 0]

Fresh(b) == [packets |-> b, all_packets_good |-> TRUE, err |-> NoErr]

\* one of the checks on a field: if these_packets.size > 0 and a packet fails,
\* count it once and keep the packets before the first that fails
Check(st, counter) ==
    LET max_good_packets == FirstIdx(st.packets, counter)
    IN IF Len(st.packets) > 0 /\ max_good_packets >= 0
       THEN [packets |-> SubSeq(st.packets, 1, max_good_packets),
             all_packets_good |-> FALSE,
             err |-> [st.err EXCEPT ![counter] = @ + 1]]
       ELSE st

\* the timestamp check with equal neighbours taken as out of order
bad_ts_idx_strict(b, last) ==
    LET ts == [i \in 1 .. Len(b) |-> Timestamp(b[i])]
        idx == {i \in 1 .. Len(b) - 1 : ~ULess(ts[i], ts[i + 1])}
    IN IF ULess(ts[1], last) THEN 0
       ELSE IF idx # {} THEN CHOOSE i \in idx : \A j \in idx : i <= j
       ELSE -1

\* the timestamp check without the comparison against last_ts
bad_ts_idx_no_boundary(b, last) ==
    LET ts == [i \in 1 .. Len(b) |-> Timestamp(b[i])]
        idx == {i \in 1 .. Len(b) - 1 : ULess(ts[i + 1], ts[i])}
    IN IF idx # {} THEN CHOOSE i \in idx : \A j \in idx : i <= j
       ELSE -1

\* bad_idx of the timestamp check: 0 when last_ts > ts[0], else the index after
\* the first i with ts[i] > ts[i+1], else -1
bad_ts_idx(b, last) ==
    LET ts == [i \in 1 .. Len(b) |-> Timestamp(b[i])]
        idx == {i \in 1 .. Len(b) - 1 : ULess(ts[i + 1], ts[i])}
    IN IF ULess(ts[1], last) THEN 0
       ELSE IF idx # {} THEN CHOOSE i \in idx : \A j \in idx : i <= j
       ELSE -1

CheckTs(st, last) ==
    LET bad_idx == IF Len(st.packets) > 0 THEN bad_ts_idx(st.packets, last) ELSE -1
    IN IF bad_idx > -1
       THEN [packets |-> SubSeq(st.packets, 1, bad_idx),
             all_packets_good |-> FALSE,
             err |-> [st.err EXCEPT !.pkt_ts_err_cnt = @ + 1]]
       ELSE st

\* the validation block without its pkt_id check
validate_skip_id(b, last) ==
    CheckTs(
        Check(
            Check(
                Check(Fresh(b), "stx_err_cnt"),
                "pkt_size_err_cnt"),
            "pkt_crc_err_cnt"),
        last)

\* the validation block of extract_nrd_ec on the batch just read
validate(b, last) ==
    CheckTs(
        Check(
            Check(
                Check(
                    Check(Fresh(b), "stx_err_cnt"),
                    "pkt_id_err_cnt"),
                "pkt_size_err_cnt"),
            "pkt_crc_err_cnt"),
        last)

\* ------------------------------------------------------------ seek_packet
\* The cursor after the scan loop of seek_packet entered at offset p: words are
\* read 4 bytes at a time; a short read ends the loop with the cursor at the end
\* of the file, a word equal to the magic number ends it after f.seek(-4, 1).
RECURSIVE ScanNoRealign(_, _)
ScanNoRealign(f, p) ==
    IF Len(Read4(f, p)) # 4 THEN Max(p, Len(f))
    ELSE IF Read4(f, p) = MAGIC THEN p + 4
    ELSE ScanNoRealign(f, p + 4)

\* a short read that leaves the cursor where the read began
RECURSIVE ScanKeepsTail(_, _)
ScanKeepsTail(f, p) ==
    IF Len(Read4(f, p)) # 4 THEN p
    ELSE IF Read4(f, p) = MAGIC THEN p
    ELSE ScanKeepsTail(f, p + 4)

RECURSIVE Scan(_, _)
Scan(f, p) ==
    IF Len(Read4(f, p)) # 4 THEN Max(p, Len(f))
    ELSE IF Read4(f, p) = MAGIC THEN p
    ELSE Scan(f, p + 4)

\* seek_packet(f): the new cursor and the returned stop - start
seek_packet(f, start) ==
    LET stop_at == Scan(f, start) IN [pos |-> stop_at, skipped |-> stop_at - start]

\* ------------------------------------------------------------ state
VARIABLES
    file,           \* the bytes of the capture file after its header
    pos,            \* f.tell(), relative to the end of the header
    pc,             \* where the running function stands
    garbage_bytes,  \* bytes skipped by seek_packet so far
    these_packets,  \* the batch last read by np.fromfile
    pkt_cnt,        \* packets accepted so far
    err,            \* stx_err_cnt, pkt_id_err_cnt, pkt_size_err_cnt, pkt_crc_err_cnt, pkt_ts_err_cnt
    last_ts,        \* the last accepted timestamp
    fts,            \* the timestamp stream written, one uint64 per record
    fttl,           \* the ttl stream written, one uint32 per record
    fchan,          \* the stream written for each entry of channel_list
    buffer_size,    \* packets asked of each read
    max_pkts,       \* the packet cap, -1 for none
    error_bugout,   \* the error budget
    stop,           \* why the read loop ended
    cycles,         \* passes of the read loop of extract_nrd_ec completed
    fast,           \* extract_nrd_fast: its cursor, batch, count and streams
    val,            \* the validation block alone: its batch, watermark and result
    ep,             \* nrd2mda_epochs: its arguments, epochs, cursor, batch and containers
    csc,            \* read_csc: its arguments, the packets read and what it returns
    mdaf            \* nrd2mda_fast: its arguments, the names bound in it, how it ended

ecVars == <<file, pos, pc, garbage_bytes, these_packets, pkt_cnt, err, last_ts,
            fts, fttl, fchan, buffer_size, max_pkts, error_bugout, stop, cycles>>

vars == <<ecVars, fast, val, ep, csc, mdaf>>

NoStreams == [i \in 1 .. Len(channel_list) |-> <<>>]

\* extract_nrd_fast not running
FastIdle == [pc |-> "idle", pos |-> 0, these_packets |-> <<>>, pkt_cnt |-> 0,
             fts |-> <<>>, fttl |-> <<>>, fchan |-> NoStreams, buffer_size |-> 0,
             cycles |-> 0]

\* the uint64 with halves ts = <<high, low>>, least significant byte first
U64(ts) == LE(ts[2], 4) \o LE(ts[1], 4)

\* the value 0 that last_ts starts from, as a uint64
ZeroTs == LE(0, 8)

\* extract_nrd_ec not running
EcIdle ==
    /\ file = <<>>
    /\ pos = 0
    /\ pc = "idle"
    /\ garbage_bytes = 0
    /\ these_packets = <<>>
    /\ pkt_cnt = 0
    /\ err = NoErr
    /\ last_ts = ZeroTs
    /\ fts = <<>>
    /\ fttl = <<>>
    /\ fchan = NoStreams
    /\ buffer_size = 0
    /\ max_pkts = -1
    /\ error_bugout = 0
    /\ stop = ""
    /\ cycles = 0

ValIdle == [batch |-> <<>>, last |-> ZeroTs, flip |-> <<>>, done |-> FALSE,
            out |-> Fresh(<<>>)]

\* read_csc not running
CscIdle == [pc |-> "idle", assume_same_fs |-> TRUE, data |-> <<>>, keys |-> {},
            Fs |-> <<0, 1>>, trace |-> <<>>, t0 |-> 0, Npad |-> <<>>, error |-> ""]

\* nrd2mda_fast not running
MdaFastIdle == [pc |-> "idle", bound |-> {}, channel_list |-> <<>>, max_pkts |-> -1,
                buffer_size |-> 0, start_ts |-> -1, stop_ts |-> -1,
                opened |-> FALSE, error |-> ""]

\* nrd2mda_epochs not running
EpIdle == [pc |-> "idle", arg |-> [is_str |-> FALSE, str |-> "", list |-> <<>>],
           buffer_size |-> 0, mda_epochs |-> <<>>, max_stop_ts |-> ZeroTs,
           nts |-> <<>>, opened |-> FALSE, pos |-> 0, these_packets |-> <<>>,
           ts |-> <<>>, cycles |-> 0, returned |-> <<>>]

\* ------------------------------------------------------------ device packets
\* The packets a capture file holds, as the digitizer writes them: the fields in
\* layout order, the crc word closing the xor of all words to zero.
Bit(n, b) == (n \div (2 ^ b)) % 2

\* xor of two 4-bit halves, bit by bit: bit k of the result is set when exactly
\* one of the two has it set
NibbleXor ==
    [a \in 0 .. 15 |-> [b \in 0 .. 15 |->
        LET odd(k) == (Bit(a, k) + Bit(b, k)) % 2
        IN odd(0) + 2 * odd(1) + 4 * odd(2) + 8 * odd(3)]]

ByteXor(a, b) == NibbleXor[a % 16][b % 16] + 16 * NibbleXor[a \div 16][b \div 16]

\* the word whose every bit is the parity of that bit over the first k rows
RECURSIVE ParityUpTo(_, _)
ParityUpTo(rows, k) ==
    IF k = 0 THEN <<0, 0, 0, 0>>
    ELSE LET acc == ParityUpTo(rows, k - 1)
         IN [i \in 1 .. 4 |-> ByteXor(acc[i], rows[k][i])]

ParityWord(rows) == ParityUpTo(rows, Len(rows))

Defects == {"ok", "stx", "id", "size", "crc"}

\* packet number i with timestamp halves ts = <<high, low>> and one defect d
DevicePacket(d, ts, i) ==
    LET stx == IF d = "stx" THEN LE(2049, 4) ELSE LE(2048, 4)
        id == IF d = "id" THEN LE(2, 4) ELSE LE(1, 4)
        size == IF d = "size" THEN LE(9 + channels, 4) ELSE LE(10 + channels, 4)
        status == LE(0, 4)
        ttl == LE(16 + i, 4)
        extra == [k \in 1 .. 4 * ExtraWords |->
                     IF (k - 1) % 4 = 0 THEN ((k - 1) \div 4) + 1 ELSE 0]
        data == [k \in 1 .. 4 * channels |->
                     CASE (k - 1) % 4 = 0 -> i
                       [] (k - 1) % 4 = 1 -> (k - 1) \div 4
                       [] (k - 1) % 4 = 2 -> 0
                       [] OTHER -> 128]
        body == stx \o id \o size \o LE(ts[1], 4) \o LE(ts[2], 4) \o status
                    \o ttl \o extra \o data
        x == ParityWord([w \in 1 .. Len(body) \div 4 |-> Word(body, w - 1)])
    IN body \o (IF d = "crc" THEN [x EXCEPT ![1] = (@ + 1) % 256] ELSE x)

\* every packet the inputs are made of, built once: defect, timestamp, number
PacketTs ==
    {<<0, 100>>, <<0, 104>>, <<0, 105>>, <<0, 110>>, <<1, 0>>, <<1, 100>>}

MaxNumber == 5

PacketTable ==
    [d \in Defects |-> [t \in PacketTs |-> [i \in 1 .. MaxNumber |-> DevicePacket(d, t, i)]]]

Pkt(d, t, i) == PacketTable[d][t][i]

\* packets of the defect cases: well-formed with either timestamp, or one defect
DefTsChoices == {<<0, 105>>, <<1, 100>>}

DefItems ==
    {<<"ok", t>> : t \in DefTsChoices} \cup {<<d, <<1, 100>>>> : d \in Defects \ {"ok"}}

\* p with bit b of its word w inverted
FlipBit(p, w, b) ==
    LET k == 4 * w + (b \div 8) + 1
        m == 2 ^ (b % 8)
    IN [p EXCEPT ![k] = IF Bit(@, b % 8) = 1 THEN @ - m ELSE @ + m]

\* ------------------------------------------------------------ extract_nrd_ec
\* if max_pkts != -1 and buffer_size > max_pkts: buffer_size = max_pkts
clamp_no_cap(bs, cap) == bs

clamp(bs, cap) == IF cap # -1 /\ bs > cap THEN cap ELSE bs

\* the errors weighed against error_bugout, with every counter added in
budget_sum_all(e) ==
    e.pkt_ts_err_cnt + e.pkt_crc_err_cnt + e.stx_err_cnt
        + e.pkt_id_err_cnt + e.pkt_size_err_cnt

\* pkt_ts_err_cnt + pkt_crc_err_cnt + stx_err_cnt
budget_sum(e) == e.pkt_ts_err_cnt + e.pkt_crc_err_cnt + e.stx_err_cnt

\* what tofile appends to the three kinds of stream for the accepted packets
TsOut(b) == [i \in 1 .. Len(b) |-> Timestamp(b[i])]

TtlOut(b) == [i \in 1 .. Len(b) |-> Field(b[i], "ttl")]

\* the channel column written last packet first
ChanOut_reversed(b, ch) == [i \in 1 .. Len(b) |-> Chan(b[Len(b) + 1 - i], ch)]

ChanOut(b, ch) == [i \in 1 .. Len(b) |-> Chan(b[i], ch)]

\* the rewind and resync after a truncated batch: f.seek((these_packets.size -
\* packets_read) * packet_size + 4, 1), then seek_packet(f)
resync(f, p, kept, packets_read) ==
    seek_packet(f, p + (kept - packets_read) * packet_size + 4)

\* up to the first read: clamp the batch size, skip the header, resync, read
ECStart ==
    /\ pc = "start"
    /\ \E bs \in {clamp(buffer_size, max_pkts)}, sk \in {seek_packet(file, pos)} :
         \E rd \in {fromfile(file, sk.pos, bs)} :
            /\ buffer_size' = bs
            /\ garbage_bytes' = garbage_bytes + sk.skipped
            /\ these_packets' = rd.packets
            /\ pos' = rd.pos
            /\ pc' = IF Len(rd.packets) > 0 THEN "loop" ELSE "done"
            /\ stop' = IF Len(rd.packets) > 0 THEN "" ELSE "eof"
    /\ UNCHANGED <<file, pkt_cnt, err, last_ts, fts, fttl, fchan, max_pkts,
                   error_bugout, cycles, fast, val, ep, csc, mdaf>>

\* one pass of the while loop: validate, write, count, cap, resync, budget, read
ECCycle ==
    /\ pc = "loop"
    /\ \E v \in {validate(these_packets, last_ts)} :
         \E sk \in {IF v.all_packets_good THEN [pos |-> pos, skipped |-> 0]
                    ELSE resync(file, pos, Len(v.packets), Len(these_packets))} :
            LET kept == v.packets
                cnt == pkt_cnt + Len(kept)
                errs == [c \in DOMAIN err |-> err[c] + v.err[c]]
                capped == max_pkts # -1 /\ cnt >= max_pkts
                bugout == budget_sum(errs) > error_bugout
            IN /\ last_ts' = IF Len(kept) > 0 THEN Timestamp(kept[Len(kept)]) ELSE last_ts
               /\ fts' = fts \o TsOut(kept)
               /\ fttl' = fttl \o TtlOut(kept)
               /\ fchan' = [i \in 1 .. Len(channel_list) |->
                               fchan[i] \o ChanOut(kept, channel_list[i])]
               /\ pkt_cnt' = cnt
               /\ err' = errs
               /\ cycles' = cycles + 1
               /\ IF capped
                  THEN /\ pc' = "done"
                       /\ stop' = "cap"
                       /\ these_packets' = kept
                       /\ UNCHANGED <<pos, garbage_bytes>>
                  ELSE /\ garbage_bytes' = garbage_bytes + sk.skipped
                       /\ IF bugout
                          THEN /\ pc' = "done"
                               /\ stop' = "budget"
                               /\ these_packets' = kept
                               /\ pos' = sk.pos
                          ELSE \E rd \in {fromfile(file, sk.pos, buffer_size)} :
                                  /\ these_packets' = rd.packets
                                  /\ pos' = rd.pos
                                  /\ pc' = IF Len(rd.packets) > 0 THEN "loop" ELSE "done"
                                  /\ stop' = IF Len(rd.packets) > 0 THEN "" ELSE "eof"
    /\ UNCHANGED <<file, buffer_size, max_pkts, error_bugout, fast, val, ep, csc, mdaf>>

\* ------------------------------------------------------------ extract_nrd_fast
\* up to the first read: clamp the batch size, skip the header, find the magic
\* number 4 bytes at a time, read
FastStart ==
    /\ fast.pc = "start"
    /\ \E bs \in {clamp(fast.buffer_size, max_pkts)} :
         \E rd \in {fromfile(file, Scan(file, fast.pos), bs)} :
            fast' = [fast EXCEPT !.buffer_size = bs,
                                 !.these_packets = rd.packets,
                                 !.pos = rd.pos,
                                 !.pc = IF Len(rd.packets) > 0 THEN "loop" ELSE "done"]
    /\ UNCHANGED ecVars
    /\ UNCHANGED <<val, ep, csc, mdaf>>

\* one pass of the while loop: write, count, cap, read
FastCycle ==
    /\ fast.pc = "loop"
    /\ \E rd \in {fromfile(file, fast.pos, fast.buffer_size)} :
         LET b == fast.these_packets
             cnt == fast.pkt_cnt + Len(b)
             capped == max_pkts # -1 /\ cnt >= max_pkts
         IN fast' = [fast EXCEPT
                        !.fts = @ \o TsOut(b),
                        !.fttl = @ \o TtlOut(b),
                        !.fchan = [i \in 1 .. Len(channel_list) |->
                                      @[i] \o ChanOut(b, channel_list[i])],
                        !.pkt_cnt = cnt,
                        !.cycles = @ + 1,
                        !.these_packets = IF capped THEN b ELSE rd.packets,
                        !.pos = IF capped THEN @ ELSE rd.pos,
                        !.pc = IF capped \/ Len(rd.packets) = 0 THEN "done" ELSE "loop"]
    /\ UNCHANGED ecVars
    /\ UNCHANGED <<val, ep, csc, mdaf>>

\* ------------------------------------------------------------ seek_packet alone
\* bytes a stream is drawn from: the two bytes of the magic number and another
StreamBytes == {0, 8, 7}

RECURSIVE SeqsUpTo(_, _)
SeqsUpTo(S, n) ==
    IF n = 0 THEN {<<>>}
    ELSE LET shorter == SeqsUpTo(S, n - 1) IN
         shorter \cup {Append(s, x) : s \in {t \in shorter : Len(t) = n - 1}, x \in S}

InitSeek ==
    /\ file \in SeqsUpTo(StreamBytes, MaxStream)
    /\ pos = 0
    /\ pc = "seek"
    /\ garbage_bytes = 0
    /\ these_packets = <<>>
    /\ pkt_cnt = 0
    /\ err = NoErr
    /\ last_ts = ZeroTs
    /\ fts = <<>>
    /\ fttl = <<>>
    /\ fchan = NoStreams
    /\ buffer_size = 0
    /\ max_pkts = -1
    /\ error_bugout = 0
    /\ stop = ""
    /\ cycles = 0
    /\ fast = FastIdle
    /\ val = ValIdle
    /\ ep = EpIdle
    /\ csc = CscIdle
    /\ mdaf = MdaFastIdle

\* one call of seek_packet on the open file
SeekStep ==
    /\ pc = "seek"
    /\ pos' = seek_packet(file, pos).pos
    /\ garbage_bytes' = garbage_bytes + seek_packet(file, pos).skipped
    /\ pc' = "sought"
    /\ UNCHANGED <<file, these_packets, pkt_cnt, err, last_ts, fts, fttl, fchan,
                   buffer_size, max_pkts, error_bugout, stop, cycles, fast, val,
                   ep, csc, mdaf>>

NextSeek == SeekStep

SpecSeek == InitSeek /\ [][NextSeek]_vars

\* offsets at which the magic number occurs in f
MarkerAt(f) == {k \in 0 .. Len(f) - 4 : SubSeq(f, k + 1, k + 4) = MAGIC}

HasMarker(f) == MarkerAt(f) # {}

FirstMarker(f) == CHOOSE k \in MarkerAt(f) : \A j \in MarkerAt(f) : k <= j

\* C1 as stated: wherever the first magic number lies (offset K), a resync from
\* offset 0 ends with the cursor at K and returns K.
C1_AnyOffset ==
    (pc = "sought" /\ HasMarker(file)) =>
        (pos = FirstMarker(file) /\ garbage_bytes = FirstMarker(file))

\* C1 amended: when the first magic number lies at an offset K that is a
\* multiple of 4, a resync from offset 0 ends with the cursor at K and returns K.
C1_AlignedOffset ==
    (pc = "sought" /\ HasMarker(file) /\ FirstMarker(file) % 4 = 0) =>
        (pos = FirstMarker(file) /\ garbage_bytes = FirstMarker(file))

C1_Witness ==
    /\ pc = "sought"
    /\ HasMarker(file)
    /\ FirstMarker(file) = 4
    /\ pos = 4
    /\ file[1] # 0

\* ------------------------------------------------------------ extract_nrd_ec on damaged files
\* most items (packets, runs of garbage) in a file
MaxItems == 4

\* what a file is made of: well-formed packets, packets with one defect, 4 bytes
\* of garbage, 1 byte of garbage
EcItems == DefItems \cup {<<"g4", <<0, 0>>>>, <<"g1", <<0, 0>>>>}

ItemBytes(it, i) ==
    CASE it[1] = "g4" -> <<7, 7, 7, 7>>
      [] it[1] = "g1" -> <<7>>
      [] OTHER -> Pkt(it[1], it[2], i)

RECURSIVE FileOf(_, _)
FileOf(items, n) ==
    IF n = 0 THEN <<>> ELSE FileOf(items, n - 1) \o ItemBytes(items[n], n)

EcFiles == {FileOf(its, Len(its)) : its \in UNION {[1 .. n -> EcItems] : n \in 0 .. MaxItems}}

BufferChoices == {1, 2}

CapChoices == {-1, 2}

BudgetChoices == {0, 1}

\* extract_nrd_ec entered: counters at 0, output files opened empty, header read
InitEC ==
    /\ file \in EcFiles
    /\ buffer_size \in BufferChoices
    /\ max_pkts \in CapChoices
    /\ error_bugout \in BudgetChoices
    /\ pos = 0
    /\ pc = "start"
    /\ garbage_bytes = 0
    /\ these_packets = <<>>
    /\ pkt_cnt = 0
    /\ err = NoErr
    /\ last_ts = ZeroTs
    /\ fts = <<>>
    /\ fttl = <<>>
    /\ fchan = NoStreams
    /\ stop = ""
    /\ cycles = 0
    /\ fast = FastIdle
    /\ val = ValIdle
    /\ ep = EpIdle
    /\ csc = CscIdle
    /\ mdaf = MdaFastIdle

NextEC == ECStart \/ ECCycle

SpecEC == InitEC /\ [][NextEC]_vars

\* ------------------------------------------------------------ both extractors on clean files
\* most packets in a clean file
MaxClean == 20

\* timestamp <<high, low>> of the i-th packet of a clean file: never decreasing,
\* equal for some neighbours, the low half falling where the high half rises
CleanTs(i) == <<i \div 3, IF i % 3 = 2 THEN 60 ELSE 50>>

CleanTable == [i \in 1 .. MaxClean |-> DevicePacket("ok", CleanTs(i), i)]

RECURSIVE CleanPackets(_)
CleanPackets(n) == IF n = 0 THEN <<>> ELSE CleanPackets(n - 1) \o CleanTable[n]

\* bytes before the first packet: none, or one word that is not the magic number
LeadChoices == {<<>>, <<7, 7, 7, 7>>}

CleanFiles == {lead \o CleanPackets(n) : lead \in LeadChoices, n \in 0 .. MaxClean}

CleanCaps == {-1, 1, 2, 3, 10}

CleanBuffers == {1, 2, 3, 7}

\* both functions entered with the same file, cap and batch size
InitClean ==
    /\ file \in CleanFiles
    /\ max_pkts \in CleanCaps
    /\ buffer_size \in CleanBuffers
    /\ error_bugout = 0
    /\ pos = 0
    /\ pc = "start"
    /\ garbage_bytes = 0
    /\ these_packets = <<>>
    /\ pkt_cnt = 0
    /\ err = NoErr
    /\ last_ts = ZeroTs
    /\ fts = <<>>
    /\ fttl = <<>>
    /\ fchan = NoStreams
    /\ stop = ""
    /\ cycles = 0
    /\ fast = [FastIdle EXCEPT !.pc = "start", !.buffer_size = buffer_size]
    /\ val = ValIdle
    /\ ep = EpIdle
    /\ csc = CscIdle
    /\ mdaf = MdaFastIdle

\* steps taken by a function: its first read, then one per pass of its loop
Steps(at, passes) == IF at = "start" THEN 0 ELSE passes + 1

\* The two functions share nothing but the input file; they are stepped in
\* turn, extract_nrd_ec first, so that their results can be compared pass by pass.
EcTurn == Steps(pc, cycles) <= Steps(fast.pc, fast.cycles) \/ fast.pc = "done"

FastTurn == Steps(fast.pc, fast.cycles) < Steps(pc, cycles) \/ pc = "done"

NextClean ==
    \/ EcTurn /\ ECStart
    \/ EcTurn /\ ECCycle
    \/ FastTurn /\ FastStart
    \/ FastTurn /\ FastCycle

SpecClean == InitClean /\ [][NextClean]_vars

\* ------------------------------------------------------------ nrd2mda_epochs
\* most packets in a capture file split into epochs
MaxEpochPackets == 4

\* timestamps <<high, low>> of the packets: around the bounds of the epochs
EpochTs == {<<0, 103>>, <<0, 104>>, <<0, 105>>, <<0, 106>>, <<1, 104>>}

EpochTable ==
    [t \in EpochTs |-> [i \in 1 .. MaxEpochPackets |-> DevicePacket("ok", t, i)]]

RECURSIVE EpochBytes(_, _)
EpochBytes(t, n) == IF n = 0 THEN <<>> ELSE EpochBytes(t, n - 1) \o EpochTable[t[n]][n]

\* well-formed packets numbered in file order, timestamps in any order
EpochFiles ==
    UNION {{EpochBytes(t, n) : t \in [1 .. n -> EpochTs]} : n \in 0 .. MaxEpochPackets}

\* the lines of the defaults file: whether the line starts with "Epoch", and the
\* name and the two integers it then holds
def_lines ==
    <<[is_epoch |-> FALSE, name |-> "", start_ts |-> <<0, 0>>, stop_ts |-> <<0, 0>>],
      [is_epoch |-> TRUE, name |-> "A", start_ts |-> <<0, 104>>, stop_ts |-> <<0, 105>>],
      [is_epoch |-> TRUE, name |-> "B", start_ts |-> <<0, 106>>, stop_ts |-> <<1, 104>>],
      [is_epoch |-> TRUE, name |-> "C", start_ts |-> <<0, 105>>, stop_ts |-> <<0, 106>>]>>

\* dict.update with one key: replace the value in place, or add the key last
Update(d, e) ==
    IF \E i \in 1 .. Len(d) : d[i].name = e.name
    THEN [i \in 1 .. Len(d) |-> IF d[i].name = e.name THEN e ELSE d[i]]
    ELSE Append(d, e)

RECURSIVE def_epochs(_, _)
def_epochs(lines, n) ==
    IF n = 0 THEN <<>>
    ELSE IF lines[n].is_epoch
         THEN Update(def_epochs(lines, n - 1),
                     [name |-> lines[n].name, start_ts |-> lines[n].start_ts,
                      stop_ts |-> lines[n].stop_ts])
         ELSE def_epochs(lines, n - 1)

\* every epoch of the defaults file, asked for or not
mda_epochs_all(d, names) == d

\* the epochs of the defaults file whose name is asked for
mda_epochs(d, names) ==
    SelectSeq(d, LAMBDA e : \E i \in 1 .. Len(names) : names[i] = e.name)

\* the smallest stop bound instead of the largest
MaxStop_smallest(mda) ==
    CHOOSE m \in {U64(mda[i].stop_ts) : i \in 1 .. Len(mda)} :
        \A i \in 1 .. Len(mda) : ~ULess(U64(mda[i].stop_ts), m)

\* max([v['stop_ts'] for v in mda_epochs.values()])
MaxStop(mda) ==
    CHOOSE m \in {U64(mda[i].stop_ts) : i \in 1 .. Len(mda)} :
        \A i \in 1 .. Len(mda) : ~ULess(m, U64(mda[i].stop_ts))

\* ntrode number -> the channels of its container
channel_dict == <<<<0>>, <<1, 0>>>>

NewContainer(chans) ==
    [hdr |-> <<-5, 4, 2, Len(chans), 0>>, data |-> <<>>, pkt_cnt |-> 0,
     rewrites |-> 0, closed |-> FALSE]

\* start_ts <= ts < stop_ts
in_epoch_open_stop(t, e) == ~ULess(t, U64(e.start_ts)) /\ ULess(t, U64(e.stop_ts))

\* np.logical_and(ts >= epoch['start_ts'], ts <= epoch['stop_ts'])
in_epoch(t, e) == ~ULess(t, U64(e.start_ts)) /\ ~ULess(U64(e.stop_ts), t)

\* these_packets[ts_idx]
Selected(b, e) == SelectSeq(b, LAMBDA p : in_epoch(Timestamp(p), e))

\* these_packets['data'][ts_idx, chans], packet by packet
Samples(sel, chans) ==
    [m \in 1 .. Len(sel) * Len(chans) |->
        Chan(sel[((m - 1) \div Len(chans)) + 1], chans[((m - 1) % Len(chans)) + 1])]

\* a write that also keeps the count word of the header up to date
write_samples_counting(c, samples, size) ==
    [c EXCEPT !.data = @ \o samples, !.pkt_cnt = @ + size,
              !.hdr[5] = @ + size, !.rewrites = @ + 1]

\* these_packets['data'][ts_idx, nt['chans']].tofile(nt['fid']);
\* nt['pkt_cnt'] += these_packets.size
write_samples(c, samples, size) ==
    [c EXCEPT !.data = @ \o samples, !.pkt_cnt = @ + size]

\* nt['fid'].seek(16); np.array(nt['pkt_cnt'], dtype='i').tofile(nt['fid']);
\* nt['fid'].close()
rewrite_count(c) ==
    [c EXCEPT !.hdr[5] = c.pkt_cnt, !.rewrites = @ + 1, !.closed = TRUE]

EpochArgs ==
    {[is_str |-> TRUE, str |-> "A", list |-> <<>>],
     [is_str |-> FALSE, str |-> "", list |-> <<"B">>],
     [is_str |-> FALSE, str |-> "", list |-> <<"B", "A">>],
     [is_str |-> FALSE, str |-> "", list |-> <<"A", "C">>],
     [is_str |-> FALSE, str |-> "", list |-> <<"Z", "A">>],
     [is_str |-> FALSE, str |-> "", list |-> <<"Z">>]}

EpochBuffers == {1, 2}

InitEpoch ==
    /\ file \in EpochFiles
    /\ pos = 0
    /\ pc = "idle"
    /\ garbage_bytes = 0
    /\ these_packets = <<>>
    /\ pkt_cnt = 0
    /\ err = NoErr
    /\ last_ts = ZeroTs
    /\ fts = <<>>
    /\ fttl = <<>>
    /\ fchan = NoStreams
    /\ buffer_size = 0
    /\ max_pkts = -1
    /\ error_bugout = 0
    /\ stop = ""
    /\ cycles = 0
    /\ fast = FastIdle
    /\ val = ValIdle
    /\ \E a \in EpochArgs, bs \in EpochBuffers :
          ep = [EpIdle EXCEPT !.pc = "start", !.arg = a, !.buffer_size = bs]
    /\ csc = CscIdle
    /\ mdaf = MdaFastIdle

\* up to the read loop: the epochs asked for, their containers, the first read
EpochStart ==
    /\ ep.pc = "start"
    /\ \E names \in {IF ep.arg.is_str THEN <<ep.arg.str>> ELSE ep.arg.list} :
         \E mda \in {mda_epochs(def_epochs(def_lines, Len(def_lines)), names)} :
            IF mda = <<>>
            THEN ep' = [ep EXCEPT !.pc = "done", !.returned = <<-1>>]
            ELSE \E rd \in {fromfile(file, Scan(file, 0), ep.buffer_size)} :
                    ep' = [ep EXCEPT
                              !.pc = "loop",
                              !.mda_epochs = mda,
                              !.max_stop_ts = MaxStop(mda),
                              !.nts = [e \in 1 .. Len(mda) |->
                                          [n \in 1 .. Len(channel_dict) |->
                                              NewContainer(channel_dict[n])]],
                              !.opened = TRUE,
                              !.these_packets = rd.packets,
                              !.pos = rd.pos,
                              !.ts = <<ZeroTs>>]
    /\ UNCHANGED <<ecVars, fast, val, csc, mdaf>>

\* these_packets.size > 0 and np.any(ts <= max_stop_ts)
EpochLoopOn ==
    /\ Len(ep.these_packets) > 0
    /\ \E i \in 1 .. Len(ep.ts) : ~ULess(ep.max_stop_ts, ep.ts[i])

\* one pass of the read loop: select per epoch, write per ntrode, read
EpochCycle ==
    /\ ep.pc = "loop"
    /\ EpochLoopOn
    /\ \E rd \in {fromfile(file, ep.pos, ep.buffer_size)} :
         \E b \in {ep.these_packets} :
            ep' = [ep EXCEPT
                      !.ts = TsOut(b),
                      !.nts = [e \in 1 .. Len(ep.mda_epochs) |->
                                  [n \in 1 .. Len(channel_dict) |->
                                      IF Selected(b, ep.mda_epochs[e]) = <<>>
                                      THEN ep.nts[e][n]
                                      ELSE write_samples(
                                               ep.nts[e][n],
                                               Samples(Selected(b, ep.mda_epochs[e]),
                                                       channel_dict[n]),
                                               Len(b))]],
                      !.these_packets = rd.packets,
                      !.pos = rd.pos,
                      !.cycles = @ + 1]
    /\ UNCHANGED <<ecVars, fast, val, csc, mdaf>>

\* after the loop: the count written at byte 16 of every container, then closed
EpochFinish ==
    /\ ep.pc = "loop"
    /\ ~EpochLoopOn
    /\ ep' = [ep EXCEPT
                 !.pc = "done",
                 !.nts = [e \in 1 .. Len(ep.mda_epochs) |->
                             [n \in 1 .. Len(channel_dict) |->
                                 rewrite_count(ep.nts[e][n])]],
                 !.returned = <<0>>]
    /\ UNCHANGED <<ecVars, fast, val, csc, mdaf>>

NextEpoch == EpochStart \/ EpochCycle \/ EpochFinish

SpecEpoch == InitEpoch /\ [][NextEpoch]_vars

\* ------------------------------------------------------------ the validation block alone
\* largest batch of timestamp cases and of defect cases
MaxBatch == 4

MaxDefBatch == 4

\* timestamps <<high, low>> of the timestamp cases and the watermarks tried
TsChoices == {<<0, 100>>, <<0, 104>>, <<0, 105>>, <<0, 110>>}

LastChoices == {<<0, 0>>, <<0, 100>>, <<1, 0>>}

\* well-formed packets, any timestamps, any watermark
TsInputsOf(n) ==
    {[batch |-> [i \in 1 .. n |-> Pkt("ok", t[i], i)],
      last |-> U64(w), flip |-> <<>>, done |-> FALSE, out |-> Fresh(<<>>)] :
        t \in [1 .. n -> TsChoices], w \in LastChoices}

\* packets with or without a defect
DefInputsOf(n) ==
    {[batch |-> [i \in 1 .. n |-> Pkt(it[i][1], it[i][2], i)],
      last |-> ZeroTs, flip |-> <<>>, done |-> FALSE, out |-> Fresh(<<>>)] :
        it \in [1 .. n -> DefItems]}

\* one well-formed packet with bit b of word w inverted
FlipInputs ==
    {[batch |-> <<FlipBit(Pkt("ok", <<0, 100>>, 1), w, b)>>,
      last |-> ZeroTs, flip |-> <<w, b>>, done |-> FALSE, out |-> Fresh(<<>>)] :
        w \in 0 .. (packet_size \div 4) - 1, b \in 0 .. 31}

InitVal ==
    /\ EcIdle
    /\ fast = FastIdle
    /\ ep = EpIdle
    /\ csc = CscIdle
    /\ mdaf = MdaFastIdle
    /\ val \in UNION {TsInputsOf(n) : n \in 1 .. MaxBatch}
                \cup UNION {DefInputsOf(n) : n \in 1 .. MaxDefBatch}
                \cup FlipInputs

\* the validation block applied to the batch
ValidateStep ==
    /\ ~val.done
    /\ val' = [val EXCEPT !.done = TRUE, !.out = validate(val.batch, val.last)]
    /\ UNCHANGED <<ecVars, fast, ep, csc, mdaf>>

NextVal == ValidateStep

SpecVal == InitVal /\ [][NextVal]_vars

\* The claims about the validation block are stated against the packet bytes
\* themselves: word w of a packet is its bytes 4w+1 .. 4w+4.
ZeroWord == <<0, 0, 0, 0>>

AllWords(p) == [w \in 1 .. Len(p) \div 4 |-> SubSeq(p, 4 * w - 3, 4 * w)]

\* the 64-bit timestamp of p, least significant byte first
TsBytes(p) == SubSeq(p, 17, 20) \o SubSeq(p, 13, 16)

\* a < b as unsigned numbers, both least significant byte first
Below(a, b) ==
    \E k \in 1 .. Len(a) : a[k] < b[k] /\ \A j \in k + 1 .. Len(a) : a[j] = b[j]

FailsStx(p) == SubSeq(p, 1, 4) # <<0, 8, 0, 0>>

FailsId(p) == SubSeq(p, 5, 8) # <<1, 0, 0, 0>>

FailsSize(p) == SubSeq(p, 9, 12) # <<10 + channels, 0, 0, 0>>

FailsCrc(p) == ParityWord(AllWords(p)) # ZeroWord

\* packet i (from 1) of batch b is out of timestamp order after watermark last
FailsTs(b, last, i) ==
    IF i = 1 THEN Below(TsBytes(b[1]), last)
    ELSE Below(TsBytes(b[i]), TsBytes(b[i - 1]))

FailsAny(b, last, i) ==
    FailsStx(b[i]) \/ FailsId(b[i]) \/ FailsSize(b[i]) \/ FailsCrc(b[i])
        \/ FailsTs(b, last, i)

\* the number of packets before the first one that fails any check
FirstFailure(b, last) ==
    LET failing == {i \in 1 .. Len(b) : FailsAny(b, last, i)}
    IN IF failing = {} THEN Len(b)
       ELSE (CHOOSE i \in failing : \A j \in failing : i <= j) - 1

\* C2: the accepted prefix of a batch is exactly the packets before the first
\* packet that fails any of the five checks; that packet and all later ones are
\* rejected.
C2_PrefixEndsAtFirstFailure ==
    val.done =>
        val.out.packets = SubSeq(val.batch, 1, FirstFailure(val.batch, val.last))

\* a good packet, then a bad marker, a bad crc and a bad timestamp: cut at the marker
C2_Witness ==
    /\ val.done
    /\ Len(val.batch) = 4
    /\ ~FailsAny(val.batch, val.last, 1)
    /\ FailsStx(val.batch[2])
    /\ FailsCrc(val.batch[3])
    /\ FailsTs(val.batch, val.last, 4)
    /\ Len(val.out.packets) = 1
    /\ val.out.err.stx_err_cnt = 1

\* C3: a packet passes the crc check exactly when the xor of all its words is
\* zero, which is so exactly when its crc word is the xor of its other words;
\* a well-formed packet with any one bit inverted fails it and is rejected.
C3_CrcIsXorOfAllWords ==
    val.done =>
        /\ \A i \in 1 .. Len(val.batch) :
              LET p == val.batch[i]
                  n == Len(p) \div 4
              IN /\ bad_crc(p) <=> FailsCrc(p)
                 /\ ~bad_crc(p) <=>
                        (SubSeq(p, 4 * n - 3, 4 * n) = ParityWord(SubSeq(AllWords(p), 1, n - 1)))
        /\ val.flip # <<>> => (bad_crc(val.batch[1]) /\ val.out.packets = <<>>)
        /\ (val.flip = <<>> /\ val.out.packets # <<>>) => ~bad_crc(val.out.packets[1])

\* a bit of the last data word inverted: only the crc check can see it
C3_Witness ==
    /\ val.done
    /\ val.flip = <<(packet_size \div 4) - 2, 31>>
    /\ val.out.err.pkt_crc_err_cnt = 1
    /\ val.out.packets = <<>>

\* C4: among well-formed packets the rejection point of the timestamp check is
\* index 0 when t[0] is below the watermark, else the first i >= 1 with
\* t[i] < t[i-1]; equal timestamps pass.  Timestamps 100, 105, 104, 110 after a
\* watermark of at most 100 are cut to the first two, with one timestamp error.
WellFormed(b) ==
    \A i \in 1 .. Len(b) :
        ~(FailsStx(b[i]) \/ FailsId(b[i]) \/ FailsSize(b[i]) \/ FailsCrc(b[i]))

TsRejection(b, last) ==
    IF Below(TsBytes(b[1]), last) THEN 0
    ELSE IF \E i \in 2 .. Len(b) : Below(TsBytes(b[i]), TsBytes(b[i - 1]))
    THEN (CHOOSE i \in 2 .. Len(b) :
              /\ Below(TsBytes(b[i]), TsBytes(b[i - 1]))
              /\ \A j \in 2 .. i - 1 : ~Below(TsBytes(b[j]), TsBytes(b[j - 1]))) - 1
    ELSE Len(b)

ExampleBatch(b) ==
    /\ Len(b) = 4
    /\ TsBytes(b[1]) = <<100, 0, 0, 0, 0, 0, 0, 0>>
    /\ TsBytes(b[2]) = <<105, 0, 0, 0, 0, 0, 0, 0>>
    /\ TsBytes(b[3]) = <<104, 0, 0, 0, 0, 0, 0, 0>>
    /\ TsBytes(b[4]) = <<110, 0, 0, 0, 0, 0, 0, 0>>

C4_TimestampRejectionPoint ==
    (val.done /\ WellFormed(val.batch)) =>
        /\ Len(val.out.packets) = TsRejection(val.batch, val.last)
        /\ val.out.err.pkt_ts_err_cnt = (IF TsRejection(val.batch, val.last) < Len(val.batch) THEN 1 ELSE 0)
        /\ (ExampleBatch(val.batch) /\ ~Below(<<100, 0, 0, 0, 0, 0, 0, 0>>, val.last)) =>
              (Len(val.out.packets) = 2 /\ val.out.err.pkt_ts_err_cnt = 1)

C4_Witness ==
    /\ val.done
    /\ WellFormed(val.batch)
    /\ ExampleBatch(val.batch)
    /\ val.last = <<100, 0, 0, 0, 0, 0, 0, 0>>
    /\ Len(val.out.packets) = 2

\* ------------------------------------------------------------ claims about whole runs
\* C5: the timestamps written so far never decrease, the watermark is the last
\* timestamp written (0 before any), and a pass of the loop that accepts no
\* packet leaves the watermark as it was.
C5_StreamOrdered ==
    /\ \A i \in 1 .. Len(fts) - 1 : ~Below(fts[i + 1], fts[i])
    /\ last_ts = (IF fts = <<>> THEN <<0, 0, 0, 0, 0, 0, 0, 0>> ELSE fts[Len(fts)])

C5_WatermarkFollowsOutput ==
    []C5_StreamOrdered /\ [][pkt_cnt' = pkt_cnt => last_ts' = last_ts]_vars

\* packets were written on both sides of a rejection and a resync
C5_Witness ==
    /\ pc = "done"
    /\ cycles >= 2
    /\ err.pkt_ts_err_cnt >= 1
    /\ Len(fts) >= 2
    /\ fts[1] # fts[2]

ThreeErrors == err.stx_err_cnt + err.pkt_crc_err_cnt + err.pkt_ts_err_cnt

\* C7 as stated: the run is stopped by the budget exactly when the marker, crc
\* and timestamp errors together exceed error_bugout.
C7_BudgetStopIffOver == (stop = "budget") <=> (ThreeErrors > error_bugout)

\* C7 amended: the run is stopped by the budget exactly when the pass did not
\* end at the packet cap and the marker, crc and timestamp errors together
\* exceed error_bugout; packet-id and size errors never count towards it.
C7_BudgetStopUnlessCapped ==
    /\ (stop = "budget") <=> (ThreeErrors > error_bugout /\ stop # "cap")
    /\ ThreeErrors = 0 => stop # "budget"

\* stopped by the budget with a packet-id or size error counted but not weighed
C7_Witness ==
    /\ stop = "budget"
    /\ err.pkt_id_err_cnt + err.pkt_size_err_cnt >= 1
    /\ ThreeErrors = error_bugout + 1
\* ------------------------------------------------------------ claims about clean files
\* packets in the file: the bytes after the lead, in whole packets
FilePackets == Len(file) \div packet_size

\* offset of the first packet
Lead == Len(file) % packet_size

CeilDiv(a, b) == (a + b - 1) \div b

\* packets accepted from N when the cap is M and the clamped batch size is b
CapCount(N, M, b) == Min(N, CeilDiv(M, b) * b)

CapLaw(at, count, b) ==
    (at = "done" /\ max_pkts >= 1) =>
        /\ b = Min(b, max_pkts)
        /\ count = CapCount(FilePackets, max_pkts, b)
        /\ count >= Min(FilePackets, max_pkts)
        /\ (count < FilePackets => count % b = 0)
        /\ count < max_pkts + b

C6_CountAtCap ==
    /\ CapLaw(pc, pkt_cnt, buffer_size)
    /\ CapLaw(fast.pc, fast.pkt_cnt, fast.buffer_size)

\* C6: with cap M >= 1 and batch size B, both functions first replace B by
\* B' = min(B, M); on a clean file of N packets each then accepts exactly
\* min(N, ceil(M / B') * B') packets, which is at least min(N, M), a whole
\* number of batches while data remain, and less than M + B'.
C6_PacketCap ==
    /\ []C6_CountAtCap
    /\ [][(pc = "start" /\ pc' # "start" /\ max_pkts >= 1)
              => buffer_size' = Min(buffer_size, max_pkts)]_vars
    /\ [][(fast.pc = "start" /\ fast'.pc # "start" /\ max_pkts >= 1)
              => fast'.buffer_size = Min(fast.buffer_size, max_pkts)]_vars

C6_Witness ==
    /\ pc = "done" /\ fast.pc = "done"
    /\ max_pkts = 10 /\ buffer_size = 7 /\ fast.buffer_size = 7
    /\ FilePackets = 20
    /\ pkt_cnt = 14 /\ fast.pkt_cnt = 14

\* fields of the i-th packet of the file, read at their byte offsets
RawAt(i, first, last) ==
    SubSeq(file, Lead + (i - 1) * packet_size + first, Lead + (i - 1) * packet_size + last)

RawTs == [i \in 1 .. FilePackets |-> RawAt(i, 17, 20) \o RawAt(i, 13, 16)]

RawTtl == [i \in 1 .. FilePackets |-> RawAt(i, 25, 28)]

RawChan(c) == [i \in 1 .. FilePackets |-> RawAt(i, 4 * (17 + c) + 1, 4 * (17 + c) + 4)]

RoundTrip(at, ts, ttl, chan) ==
    (at = "done" /\ max_pkts = -1) =>
        /\ ts = RawTs
        /\ ttl = RawTtl
        /\ \A k \in 1 .. Len(channel_list) : chan[k] = RawChan(channel_list[k])

\* C8: a run over a clean file of N packets with no cap ends with the
\* timestamp stream holding (high << 32) | low of every packet, the ttl stream
\* holding every ttl word and the stream of each requested channel c holding
\* every data[c], all in file order, for extract_nrd_ec and extract_nrd_fast.
C8_RoundTrip ==
    /\ RoundTrip(pc, fts, fttl, fchan)
    /\ RoundTrip(fast.pc, fast.fts, fast.fttl, fast.fchan)

C8_Witness ==
    /\ pc = "done" /\ fast.pc = "done"
    /\ max_pkts = -1
    /\ Lead = 4
    /\ FilePackets >= 5
    /\ Len(fts) = FilePackets /\ Len(fast.fts) = FilePackets
    /\ cycles >= 2
    /\ err = NoErr

\* C9: on a clean file, after the same number of passes extract_nrd_ec and
\* extract_nrd_fast have accepted the same number of packets and written the
\* same timestamp, ttl and channel streams, and they stop after the same pass.
C9_FastMatchesChecked ==
    Steps(pc, cycles) = Steps(fast.pc, fast.cycles) =>
        /\ pkt_cnt = fast.pkt_cnt
        /\ fts = fast.fts
        /\ fttl = fast.fttl
        /\ fchan = fast.fchan
        /\ (pc = "done") <=> (fast.pc = "done")

C9_Witness ==
    /\ pc = "done" /\ fast.pc = "done"
    /\ cycles = fast.cycles /\ cycles >= 3
    /\ max_pkts = 10
    /\ pkt_cnt >= 10
    /\ \E i \in 1 .. Len(fts) - 1 : fts[i] = fts[i + 1]
    /\ fts = fast.fts

\* ------------------------------------------------------------ claims about nrd2mda_epochs
\* timestamp of the j-th packet of the file, read at its byte offsets
EpTs(j) ==
    SubSeq(file, (j - 1) * packet_size + 17, (j - 1) * packet_size + 20)
        \o SubSeq(file, (j - 1) * packet_size + 13, (j - 1) * packet_size + 16)

\* sample of channel c of the j-th packet of the file
EpSample(j, c) ==
    SubSeq(file, (j - 1) * packet_size + 4 * (17 + c) + 1,
                 (j - 1) * packet_size + 4 * (17 + c) + 4)

\* packets of the batches the read loop has been through
Processed == (ep.pos \div packet_size) - Len(ep.these_packets)

\* the container of ntrode n of epoch e holds the samples of packet j
InContainer(e, n, j) ==
    \A k \in 1 .. Len(channel_dict[n]) :
        \E m \in 1 .. Len(ep.nts[e][n].data) :
            ep.nts[e][n].data[m] = EpSample(j, channel_dict[n][k])

\* start_ts <= t <= stop_ts for the bounds <<high, low>> of epoch x
Within(t, x) ==
    /\ ~Below(t, LE(x.start_ts[2], 4) \o LE(x.start_ts[1], 4))
    /\ ~Below(LE(x.stop_ts[2], 4) \o LE(x.stop_ts[1], 4), t)

\* nrd2mda_epochs has returned with, in every container of every epoch, the
\* packets of the file whose timestamp is within the bounds, and no other
C10_WrittenIffWithinBounds ==
    ep.pc = "done" =>
        \A e \in 1 .. Len(ep.nts) : \A n \in 1 .. Len(channel_dict) :
            \A j \in 1 .. FilePackets :
                InContainer(e, n, j) <=> Within(EpTs(j), ep.mda_epochs[e])

\* C10: a packet is in the containers of an epoch if and only if its batch has
\* been through the read loop and start_ts <= timestamp <= stop_ts, both bounds
\* included; the packets after the batch that ended the loop are in no container.
C10_InclusiveBoundsOfDecodedBatches ==
    \A e \in 1 .. Len(ep.nts) : \A n \in 1 .. Len(channel_dict) :
        \A j \in 1 .. FilePackets :
            InContainer(e, n, j) <=> (j <= Processed /\ Within(EpTs(j), ep.mda_epochs[e]))

\* epoch A = [104, 105] over packets stamped 103, 104, 105, 106
C10_Witness ==
    /\ ep.pc = "done"
    /\ FilePackets = 4
    /\ Processed = 4
    /\ Len(ep.nts) >= 1
    /\ ep.mda_epochs[1].start_ts = <<0, 104>>
    /\ ep.mda_epochs[1].stop_ts = <<0, 105>>
    /\ EpTs(1) = <<103, 0, 0, 0, 0, 0, 0, 0>> /\ ~InContainer(1, 2, 1)
    /\ EpTs(2) = <<104, 0, 0, 0, 0, 0, 0, 0>> /\ InContainer(1, 2, 2)
    /\ EpTs(3) = <<105, 0, 0, 0, 0, 0, 0, 0>> /\ InContainer(1, 2, 3)
    /\ EpTs(4) = <<106, 0, 0, 0, 0, 0, 0, 0>> /\ ~InContainer(1, 2, 4)

\* packets held by the container of ntrode n of epoch e: its samples, one per
\* channel of the ntrode for each packet
PacketsIn(e, n) == Len(ep.nts[e][n].data) \div Len(channel_dict[n])

\* C11: when nrd2mda_epochs has returned 0, the fifth header word of every
\* container is the number of packets written to that container.
C11_HeaderCountIsPacketsWritten ==
    (ep.pc = "done" /\ ep.returned = <<0>>) =>
        \A e \in 1 .. Len(ep.nts) : \A n \in 1 .. Len(channel_dict) :
            ep.nts[e][n].hdr[5] = PacketsIn(e, n)

\* ------------------------------------------------------------ claims about the end of the file
\* no 4-byte read made from offset q on, in steps of 4, returns the marker
NoMarkerFrom(q) ==
    \A k \in 0 .. Len(file) \div 4 :
        q + 4 * k + 4 <= Len(file) =>
            SubSeq(file, q + 4 * k + 1, q + 4 * k + 4) # <<0, 8, 0, 0>>

\* the pass kept fewer packets than it read
Truncating == pc = "loop" /\ pkt_cnt' - pkt_cnt < Len(these_packets)

\* where the resync of a truncating pass starts
RewindTo == pos + (pkt_cnt' - pkt_cnt - Len(these_packets)) * packet_size + 4

EndsAtEof == pc' = "done" /\ stop' = "eof" /\ these_packets' = <<>> /\ pos' = Len(file)

\* the first resync finds no marker
C12_FirstResyncAtEof ==
    (pc = "start" /\ pc' # "start" /\ NoMarkerFrom(0)) =>
        /\ EndsAtEof
        /\ garbage_bytes' = Len(file)
        /\ err' = err

\* the resync after a truncated batch finds no marker
C12_LaterResyncAtEof ==
    (Truncating /\ stop' # "cap" /\ NoMarkerFrom(RewindTo)) =>
        /\ pc' = "done"
        /\ pos' = Len(file)
        /\ garbage_bytes' = garbage_bytes + (Len(file) - RewindTo)
        /\ stop' # "budget" => EndsAtEof

\* less than one packet is left after a batch that was accepted whole
C12_ShortTail ==
    (pc = "loop" /\ ~Truncating /\ stop' # "cap" /\ stop' # "budget"
        /\ Len(file) - pos < packet_size) =>
        /\ EndsAtEof
        /\ err' = err
        /\ garbage_bytes' = garbage_bytes

\* C12: a resync that reaches the end of the file without finding the marker
\* leaves the cursor at the end of the file and adds the bytes from where it
\* started to the end of the file to garbage_bytes; the read that follows
\* returns no packet and the run ends. Bytes left that are fewer than one
\* packet end the run with every rejection counter unchanged.
C12_EndOfStreamIsNotAnError ==
    /\ [][C12_FirstResyncAtEof]_vars
    /\ [][C12_LaterResyncAtEof]_vars
    /\ [][C12_ShortTail]_vars
    /\ [](pc = "done" => stop \in {"eof", "cap", "budget"})

\* a run whose last batch was truncated and whose resync then ran to the end of
\* a file that does not end on a 4-byte boundary
C12_Witness ==
    /\ pc = "done" /\ stop = "eof"
    /\ pos = Len(file)
    /\ Len(file) % 4 # 0
    /\ these_packets = <<>>
    /\ pkt_cnt >= 1
    /\ err # NoErr
    /\ garbage_bytes > packet_size - 4

\* ------------------------------------------------------------ read_csc
\* samples in the window of one continuous record: 'samp' is '512h'
SampPerPacket == 512

\* most records in a continuous record file
MaxCscPackets == 4

Abs(a) == IF a < 0 THEN -a ELSE a

RECURSIVE GCD(_, _)
GCD(a, b) == IF b = 0 THEN a ELSE GCD(b, a % b)

\* The floating point values of read_csc are carried as exact fractions
\* <<p, q>> in lowest terms with q > 0; <<0, 0>> is nan.
Frac(p, q) == LET g == GCD(Abs(p), q) IN <<(IF p < 0 THEN -(Abs(p) \div g) ELSE p \div g), q \div g>>

FAdd(a, b) == Frac(a[1] * b[2] + b[1] * a[2], a[2] * b[2])

FMul(a, b) ==
    LET g1 == GCD(Abs(a[1]), b[2])
        g2 == GCD(Abs(b[1]), a[2])
    IN Frac((a[1] \div g1) * (b[1] \div g2), (a[2] \div g2) * (b[2] \div g1))

\* the integer part, towards zero
FTrunc(a) == IF a[1] >= 0 THEN a[1] \div a[2] ELSE -((-a[1]) \div a[2])

\* int(x) of the float that stands for the fraction a. The float differs from
\* the fraction by rounding (dt_us is float32), so when a is a whole number the
\* float lies just below or just above it and int() gives either neighbour.
IntOfFloat(a) ==
    IF a[2] # 1 THEN {FTrunc(a)}
    ELSE IF a[1] > 0 THEN {a[1], a[1] - 1}
    ELSE IF a[1] < 0 THEN {a[1], a[1] + 1}
    ELSE {0}

\* sample k of record i: never 0, so that it differs from padding
CscSamp == [i \in 1 .. MaxCscPackets |-> [k \in 1 .. SampPerPacket |-> 1000 * i + k]]

\* timestamp of the first record, and the steps between records, microseconds
CscT0 == 5000

CscDeltas == {8000, 16000, 20000}

\* nominal rates, Hz
CscRates == {32000, 16000}

\* valid samples of a record
CscNs == {512, 256}

RECURSIVE CscTimes(_, _)
CscTimes(d, i) == IF i = 1 THEN CscT0 ELSE CscTimes(d, i - 1) + d[i - 1]

\* the records of a file: any steps; Ns the same in all, or lower in the last;
\* Fs the same in all, or different in the second
CscFiles ==
    UNION {{[i \in 1 .. n |->
                [timestamp |-> CscTimes(d, i), chan |-> 0,
                 Fs |-> IF i = 2 THEN f[2] ELSE f[1],
                 Ns |-> IF i = n THEN ns[2] ELSE ns[1],
                 samp |-> CscSamp[i]]] :
              d \in [1 .. n - 1 -> CscDeltas],
              f \in {<<a, b>> : a \in CscRates, b \in CscRates},
              ns \in {x \in CscNs \X CscNs : x[1] >= x[2]}} :
           n \in 0 .. MaxCscPackets}

InitCsc ==
    /\ EcIdle
    /\ fast = FastIdle
    /\ val = ValIdle
    /\ ep = EpIdle
    /\ mdaf = MdaFastIdle
    /\ \E d \in CscFiles, a \in BOOLEAN :
          csc = [CscIdle EXCEPT !.pc = "start", !.data = d, !.assume_same_fs = a]

\* the test of the rates left out
FsVaries_never(data) == FALSE

\* data['Fs'].std() > 1e-6
FsVaries(data) == \E i, j \in 1 .. Len(data) : data[i].Fs # data[j].Fs

\* np.diff(ts_us)
dt_us(data) == [i \in 1 .. Len(data) - 1 |-> data[i + 1].timestamp - data[i].timestamp]

\* dt_us[i] > packet_duration_us, with packet_duration_us = 512 * (1. / Fs[0]) * 1e6
IsGap(data, i) == dt_us(data)[i] * data[1].Fs > 512 * 1000000

\* idx after lines 116-118, counted from 1: the record that starts each
\* contiguous section, then one past the last record
SectionStarts(data) ==
    SelectSeq([i \in 1 .. Len(data) |-> i], LAMBDA i : i = 1 \/ IsGap(data, i - 1))
        \o <<Len(data) + 1>>

\* samp[a:b].ravel(), records a .. b - 1
RECURSIVE Ravel(_, _, _)
Ravel(data, a, b) == IF a >= b THEN <<>> ELSE data[a].samp \o Ravel(data, a + 1, b)

\* (Ns[a:b-1] / (dt_us[a:b-1] * 1e-6)).sum(), pairs of records a .. b - 1
RECURSIVE RateSum(_, _, _)
RateSum(data, a, b) ==
    IF a >= b - 1 THEN <<0, 1>>
    ELSE FAdd(Frac(data[a].Ns * 1000000, dt_us(data)[a]), RateSum(data, a + 1, b))

\* the sum over every pair of records, those on either side of a gap included
estimFs_sum_all_pairs(data, st, n) == RateSum(data, 1, Len(data) + 1)

\* estimFs_sum and N_samps after the loop over the sections
RECURSIVE estimFs_sum(_, _, _)
estimFs_sum(data, st, n) ==
    IF n = 0 THEN <<0, 1>>
    ELSE FAdd(estimFs_sum(data, st, n - 1), RateSum(data, st[n], st[n + 1]))

RECURSIVE N_samps(_, _)
N_samps(st, n) ==
    IF n = 0 THEN 0
    ELSE N_samps(st, n - 1) + (IF st[n + 1] - st[n] > 1 THEN st[n + 1] - 1 - st[n] ELSE 0)

Zeros(n) == [i \in 1 .. n |-> 0]

\* The padding loop from section n on: every result it can end with. A negative
\* Npad makes np.zeros raise ValueError.
RECURSIVE Padded(_, _, _, _, _, _, _)
Padded(data, st, Fs, n, cum_N, padded, pads) ==
    IF n > Len(st) - 1 THEN {[error |-> "", trace |-> padded, Npad |-> pads]}
    ELSE UNION {
        IF np < 0
        THEN {[error |-> "ValueError", trace |-> <<>>, Npad |-> Append(pads, np)]}
        ELSE Padded(data, st, Fs, n + 1,
                    cum_N + np + SampPerPacket * (st[n + 1] - st[n]),
                    padded \o Zeros(np) \o Ravel(data, st[n], st[n + 1]),
                    Append(pads, np)) :
        np \in IntOfFloat(
                 FAdd(FMul(Frac(data[st[n]].timestamp - data[1].timestamp, 1000000), Fs),
                      <<-cum_N, 1>>))}

Raised(e) == [csc EXCEPT !.pc = "raised", !.error = e]

\* the whole of read_csc on the records of the file
ReadCsc ==
    /\ csc.pc = "start"
    /\ LET data == csc.data
           n == Len(data)
           st == SectionStarts(data)
           ns == N_samps(st, Len(st) - 1)
       IN IF ~csc.assume_same_fs \/ FsVaries(data)
          THEN csc' = [csc EXCEPT !.pc = "done", !.keys = {"header", "packets"}]
          ELSE IF n = 0
          THEN csc' = Raised("IndexError")
          ELSE IF Len(st) = 2
          THEN csc' = [csc EXCEPT
                          !.pc = "done",
                          !.keys = {"header", "packets", "Fs", "trace", "t0"},
                          !.trace = Ravel(data, 1, n + 1),
                          !.Fs = IF n = 1 THEN <<0, 0>>
                                 ELSE FMul(RateSum(data, 1, n + 1), <<1, n - 1>>),
                          !.t0 = data[1].timestamp]
          ELSE IF ns = 0
          THEN csc' = Raised("ZeroDivisionError")
          ELSE \E Fs \in {FMul(estimFs_sum(data, st, Len(st) - 1), <<1, ns>>)} :
               \E r \in Padded(data, st, Fs, 2, SampPerPacket * (st[2] - st[1]),
                               Ravel(data, st[1], st[2]), <<>>) :
                  IF r.error # ""
                  THEN csc' = [csc EXCEPT !.pc = "raised", !.error = r.error,
                                          !.Npad = r.Npad]
                  ELSE csc' = [csc EXCEPT
                                  !.pc = "done",
                                  !.keys = {"header", "packets", "Fs", "trace", "t0"},
                                  !.trace = r.trace,
                                  !.Fs = Fs,
                                  !.t0 = data[1].timestamp,
                                  !.Npad = r.Npad]
    /\ UNCHANGED <<ecVars, fast, val, ep, mdaf>>

NextCsc == ReadCsc

SpecCsc == InitCsc /\ [][NextCsc]_vars

\* ------------------------------------------------------------ claims about read_csc
\* read_csc has gone past the test of the nominal rates and found records
Reconstructing == csc.pc \in {"done", "raised"} /\ csc.assume_same_fs
                    /\ ~FsVaries(csc.data) /\ Len(csc.data) > 0

\* no step between records is longer than 512 samples at the nominal rate of
\* the first record
GapFree ==
    \A i \in 1 .. Len(csc.data) - 1 :
        (csc.data[i + 1].timestamp - csc.data[i].timestamp) * csc.data[1].Fs
            <= 512 * 1000000

\* the first Ns samples of records 1 .. n, in order
RECURSIVE ValidSamples(_)
ValidSamples(n) ==
    IF n = 0 THEN <<>>
    ELSE ValidSamples(n - 1) \o SubSeq(csc.data[n].samp, 1, csc.data[n].Ns)

\* C13: with no gap, the trace is the first Ns samples of every record in
\* order, with no zero inserted, and t0 is the timestamp of the first record.
C13_GapFreeTraceIsValidSamples ==
    (Reconstructing /\ GapFree) =>
        /\ csc.pc = "done"
        /\ csc.trace = ValidSamples(Len(csc.data))
        /\ \A k \in 1 .. Len(csc.trace) : csc.trace[k] # 0
        /\ csc.t0 = csc.data[1].timestamp

\* the records that start a contiguous run after the first
RunStarts ==
    SelectSeq([i \in 1 .. Len(csc.data) |-> i],
              LAMBDA i : i > 1 /\ (csc.data[i].timestamp - csc.data[i - 1].timestamp)
                                      * csc.data[1].Fs > 512 * 1000000)

RECURSIVE SumTo(_, _)
SumTo(s, n) == IF n = 0 THEN 0 ELSE SumTo(s, n - 1) + s[n]

\* samples in the trace before run k: the windows of the records before it and
\* the zeros inserted before the earlier runs
CumBefore(k) == SampPerPacket * (RunStarts[k] - 1) + SumTo(csc.Npad, k - 1)

\* the nearest whole number to the fraction a
Round(a) == (2 * a[1] + a[2]) \div (2 * a[2])

\* round(elapsed seconds since the first record * estimated rate) for run k
Landing(k) ==
    Round(FMul(Frac(csc.data[RunStarts[k]].timestamp - csc.data[1].timestamp, 1000000),
               csc.Fs))

\* C14: with gaps, the zeros inserted before every run after the first are
\* round(elapsed * rate) less the samples already in the trace, never fewer
\* than 0, so the run starts at trace index round(elapsed * rate), and the
\* trace holds the samples of the records and the zeros, nothing else.
C14_PaddingLandsOnElapsedTime ==
    (Reconstructing /\ ~GapFree /\ csc.error # "ZeroDivisionError") =>
        /\ \A k \in 1 .. Len(csc.Npad) : csc.Npad[k] >= 0
        /\ csc.pc = "done"
        /\ Len(csc.Npad) = Len(RunStarts)
        /\ \A k \in 1 .. Len(csc.Npad) :
              /\ csc.Npad[k] = Landing(k) - CumBefore(k)
              /\ csc.trace[Landing(k) + 1] = csc.data[RunStarts[k]].samp[1]
        /\ Len(csc.trace) = SampPerPacket * Len(csc.data) + SumTo(csc.Npad, Len(csc.Npad))

\* ------------------------------------------------------------ claims about the rejection counters
Counters == {"stx_err_cnt", "pkt_id_err_cnt", "pkt_size_err_cnt", "pkt_crc_err_cnt",
             "pkt_ts_err_cnt"}

\* counters that the pass has raised, and by how much in all
Raisedk == {c \in Counters : err'[c] # err[c]}

RaisedBy ==
    (err'.stx_err_cnt - err.stx_err_cnt) + (err'.pkt_id_err_cnt - err.pkt_id_err_cnt)
        + (err'.pkt_size_err_cnt - err.pkt_size_err_cnt)
        + (err'.pkt_crc_err_cnt - err.pkt_crc_err_cnt)
        + (err'.pkt_ts_err_cnt - err.pkt_ts_err_cnt)

\* the first to fail of the checks, in their order, on packet i of the batch
FirstCheckFailed(b, last, i) ==
    IF FailsStx(b[i]) THEN "stx_err_cnt"
    ELSE IF FailsId(b[i]) THEN "pkt_id_err_cnt"
    ELSE IF FailsSize(b[i]) THEN "pkt_size_err_cnt"
    ELSE IF FailsCrc(b[i]) THEN "pkt_crc_err_cnt"
    ELSE "pkt_ts_err_cnt"

\* one pass raises at most one counter, by one: that of the first rejected packet
C15_OnePerCycle ==
    pc = "loop" =>
        LET K == pkt_cnt' - pkt_cnt IN
        /\ RaisedBy <= 1
        /\ (K = Len(these_packets)) => RaisedBy = 0
        /\ (K < Len(these_packets)) =>
              Raisedk = {FirstCheckFailed(these_packets, last_ts, K + 1)}

\* places of the file where a decode can start and finds a wrong pkt_id
BadIdPlaces ==
    {q \in 0 .. Len(file) - packet_size :
        /\ q % 4 = 0
        /\ SubSeq(file, q + 1, q + 4) = <<0, 8, 0, 0>>
        /\ SubSeq(file, q + 5, q + 8) # <<1, 0, 0, 0>>}

\* C15: a pass of extract_nrd_ec raises at most one rejection counter, by one,
\* the one of the check that the first rejected packet fails; a batch accepted
\* whole raises none; no packet is counted more than once in a run.
C15_RejectionCounting ==
    /\ [][C15_OnePerCycle]_vars
    /\ [](err.pkt_id_err_cnt <= Cardinality(BadIdPlaces))

\* ------------------------------------------------------------ claims about the size of a read
\* the step ends with an np.fromfile of extract_nrd_ec / of extract_nrd_fast
EcReads ==
    \/ pc = "start" /\ pc' # "start"
    \/ pc = "loop" /\ cycles' # cycles /\ stop' # "cap" /\ stop' # "budget"

FastReads ==
    \/ fast.pc = "start" /\ fast'.pc # "start"
    \/ fast.pc = "loop" /\ fast'.cycles # fast.cycles
          /\ ~(max_pkts # -1 /\ fast'.pkt_cnt >= max_pkts)

\* whole packets of the file from offset q on
PacketsFrom(q) == (Len(file) - q) \div packet_size

\* every read decodes no more than the packets still allowed by the cap
C16_ReadWithinRemainingBudget ==
    /\ [][(EcReads /\ max_pkts # -1) =>
             Len(these_packets') <= Min(buffer_size', max_pkts - pkt_cnt')]_vars
    /\ [][(FastReads /\ max_pkts # -1) =>
             Len(fast'.these_packets) <= Min(fast'.buffer_size, max_pkts - fast'.pkt_cnt)]_vars

\* C16: the batch size is set once, before the first read, to min(batch size,
\* cap); every read of extract_nrd_ec and extract_nrd_fast asks for that many
\* packets whatever has been accepted, and decodes that many or all that remain.
C16_ReadRequestsClampedBatch ==
    /\ [](pc # "start" /\ max_pkts # -1 => buffer_size <= max_pkts)
    /\ [](fast.pc # "start" /\ max_pkts # -1 => fast.buffer_size <= max_pkts)
    /\ [][pc # "start" => buffer_size' = buffer_size]_vars
    /\ [][fast.pc # "start" => fast'.buffer_size = fast.buffer_size]_vars
    /\ [][EcReads =>
             Len(these_packets') =
                Min(buffer_size', PacketsFrom(IF pc = "start" THEN Lead ELSE pos))]_vars
    /\ [][FastReads =>
             Len(fast'.these_packets) =
                Min(fast'.buffer_size,
                    PacketsFrom(IF fast.pc = "start" THEN Lead ELSE fast.pos))]_vars

\* cap 10, batches of 7: the second read brings 7 packets with 3 left to the cap
C16_Witness ==
    /\ max_pkts = 10 /\ buffer_size = 7 /\ fast.buffer_size = 7
    /\ pc = "loop" /\ pkt_cnt = 7 /\ Len(these_packets) = 7
    /\ fast.pc = "loop" /\ fast.pkt_cnt = 7 /\ Len(fast.these_packets) = 7

\* ------------------------------------------------------------ claims about progress
\* the offset at which the batch in these_packets was decoded: the read ended
\* at pos, after the packets and at most a partial one
BatchStart ==
    CHOOSE q \in 0 .. Len(file) :
        /\ q + Len(these_packets) * packet_size <= pos
        /\ pos - (q + Len(these_packets) * packet_size) < packet_size
        /\ SubSeq(file, q + 1, q + packet_size) = these_packets[1]

\* where a scan that starts at q and reads 4 bytes at a time stops
StopsAt(q) ==
    LET hits == {k \in 0 .. Len(file) \div 4 :
                    /\ q + 4 * k + 4 <= Len(file)
                    /\ SubSeq(file, q + 4 * k + 1, q + 4 * k + 4) = <<0, 8, 0, 0>>}
    IN IF hits = {} THEN Len(file)
       ELSE q + 4 * (CHOOSE k \in hits : \A j \in hits : k <= j)

\* the resync of a truncating pass starts 4 bytes after the start of the first
\* rejected packet
C17_ResyncFromRejectedMarker ==
    (Truncating /\ stop' # "cap") =>
        LET from == BatchStart + (pkt_cnt' - pkt_cnt) * packet_size + 4
        IN garbage_bytes' - garbage_bytes = StopsAt(from) - from

\* each pass decodes from a greater offset than the pass before
C17_DecodesFurtherOn == (pc = "loop" /\ pc' = "loop") => BatchStart' > BatchStart

\* C17: after a pass that cut its batch the cursor is put 4 bytes after the
\* start of the first rejected packet before the resync, and every pass decodes
\* from a greater offset than the one before.
C17_ProgressAfterRejection ==
    /\ [][C17_ResyncFromRejectedMarker]_vars
    /\ [][C17_DecodesFurtherOn]_vars

\* ------------------------------------------------------------ both extractors on files ending inside a packet
MaxTailItems == 3

\* whole packets with one timestamp, well-formed or with one defect
TailItems == {<<d, <<1, 100>>>> : d \in Defects}

\* what follows the last whole packet: nothing, 1 byte, 4 bytes
TailChoices == {<<>>, <<7>>, <<7, 7, 7, 7>>}

TailFiles ==
    {FileOf(its, Len(its)) \o t :
        its \in UNION {[1 .. n -> TailItems] : n \in 0 .. MaxTailItems},
        t \in TailChoices}

TailBuffers == {1, 2, 3}

\* an error budget no file of TailFiles exhausts
TailBudget == 10

TailCaps == {-1, 2}

\* extract_nrd_ec and extract_nrd_fast entered on the same file
InitTail ==
    /\ file \in TailFiles
    /\ buffer_size \in TailBuffers
    /\ max_pkts \in TailCaps
    /\ error_bugout = TailBudget
    /\ pos = 0
    /\ pc = "start"
    /\ garbage_bytes = 0
    /\ these_packets = <<>>
    /\ pkt_cnt = 0
    /\ err = NoErr
    /\ last_ts = ZeroTs
    /\ fts = <<>>
    /\ fttl = <<>>
    /\ fchan = NoStreams
    /\ stop = ""
    /\ cycles = 0
    /\ fast = [FastIdle EXCEPT !.pc = "start", !.buffer_size = buffer_size]
    /\ val = ValIdle
    /\ ep = EpIdle
    /\ csc = CscIdle
    /\ mdaf = MdaFastIdle

NextTail ==
    \/ EcTurn /\ ECStart
    \/ EcTurn /\ ECCycle
    \/ FastTurn /\ FastStart
    \/ FastTurn /\ FastCycle

SpecTail == InitTail /\ [][NextTail]_vars

\* ------------------------------------------------------------ claims about recovery
\* the 80 bytes at offset q are a packet that passes every check
WellFormedAt(q) ==
    /\ q + packet_size <= Len(file)
    /\ validate(<<SubSeq(file, q + 1, q + packet_size)>>, ZeroTs).all_packets_good

\* offsets of packet-sized records that fail a check when decoded
RejectedAt ==
    {q \in 0 .. Len(file) : q % packet_size = 0 /\ q + packet_size <= Len(file)
                               /\ ~WellFormedAt(q)}

\* how many records of the TTL stream come from the packet at offset q
WrittenTimes(q) ==
    Cardinality({j \in 1 .. Len(fttl) :
                    fttl[j] = Field(SubSeq(file, q + 1, q + packet_size), "ttl")})

\* C18: when a run that was stopped by neither cap nor budget has ended, every
\* well-formed packet at a 4-byte-aligned offset after a rejected packet has
\* been written, and written once.
C18_RecoveryAfterCorruption ==
    (pc = "done" /\ stop = "eof") =>
        \A q \in 0 .. Len(file) :
            (/\ q % 4 = 0
             /\ WellFormedAt(q)
             /\ \E r \in RejectedAt : r < q) => WrittenTimes(q) = 1

\* ------------------------------------------------------------ claims about the output streams
\* record j of the three kinds of stream was decoded from one packet of the file
FromOnePacket(ts, ttl, chan, j) ==
    \E q \in 0 .. Len(file) - packet_size :
        LET p == SubSeq(file, q + 1, q + packet_size)
        IN /\ Timestamp(p) = ts[j]
           /\ Field(p, "ttl") = ttl[j]
           /\ \A k \in 1 .. Len(channel_list) : Chan(p, channel_list[k]) = chan[k][j]

Aligned(n, ts, ttl, chan) ==
    /\ Len(ts) = n
    /\ Len(ttl) = n
    /\ \A k \in 1 .. Len(channel_list) : Len(chan[k]) = n
    /\ \A j \in 1 .. n : FromOnePacket(ts, ttl, chan, j)

\* C19: at every point between passes of extract_nrd_ec and of
\* extract_nrd_fast the timestamp stream, the ttl stream and the stream of each
\* requested channel hold pkt_cnt records each, and record i of every stream
\* was decoded from the same packet.
C19_StreamsAligned ==
    /\ Aligned(pkt_cnt, fts, fttl, fchan)
    /\ Aligned(fast.pkt_cnt, fast.fts, fast.fttl, fast.fchan)

C19_Witness ==
    /\ pc = "done" /\ fast.pc = "done"
    /\ cycles >= 2 /\ fast.cycles >= 2
    /\ budget_sum_all(err) >= 1
    /\ pkt_cnt >= 2
    /\ fast.pkt_cnt > pkt_cnt
    /\ fttl[1] # fttl[2]

\* ------------------------------------------------------------ claims about the container header
EpContainers == {<<e, n>> : e \in 1 .. Len(ep.nts), n \in 1 .. Len(channel_dict)}

\* the header as written when the container was opened, the count word 0
HeaderThenPlaceholder ==
    \A x \in EpContainers :
        LET c == ep.nts[x[1]][x[2]]
        IN /\ Len(c.hdr) = 5
           /\ SubSeq(c.hdr, 1, 4) = <<-5, 4, 2, Len(channel_dict[x[2]])>>
           /\ (ep.pc = "loop") => (c.hdr[5] = 0 /\ c.rewrites = 0 /\ ~c.closed)
           /\ (ep.pc = "done") => (c.rewrites = 1 /\ c.closed)

\* the count word is written by the step that ends the run and no other, after
\* the last samples; a closed container does not change
RewriteLast ==
    \A x \in EpContainers :
        LET c == ep.nts[x[1]][x[2]]
            d == ep.nts'[x[1]][x[2]]
        IN /\ ep.pc = "loop" /\ ep'.pc = "loop" => d.hdr = c.hdr
           /\ d.rewrites # c.rewrites =>
                 /\ ep.pc = "loop" /\ ep'.pc = "done"
                 /\ d.data = c.data
                 /\ d.closed
           /\ c.closed => d = c

\* C20: every container starts with the header [-5, 4, 2, channel count, 0];
\* the count word stays 0 through the read loop and is written once per
\* container, after the loop and after all samples of the container; the
\* container is then closed and does not change afterwards.
C20_HeaderRewrittenOnceAtEnd == []HeaderThenPlaceholder /\ [][RewriteLast]_vars

C20_Witness ==
    /\ ep.pc = "done" /\ ep.returned = <<0>>
    /\ ep.cycles >= 2
    /\ Len(ep.nts) = 2
    /\ \E x \in EpContainers : ep.nts[x[1]][x[2]].data # <<>> /\ ep.nts[x[1]][x[2]].hdr[5] > 0
    /\ \E x \in EpContainers : ep.nts[x[1]][x[2]].data = <<>> /\ ep.nts[x[1]][x[2]].hdr[5] = 0

\* ------------------------------------------------------------ claims about complete epochs
\* the timestamps of the file never go down
NonDecreasing == \A j \in 1 .. FilePackets - 1 : ~Below(EpTs(j + 1), EpTs(j))

\* the samples of the channels of ntrode n of the packets among the first j of
\* the file whose timestamp is within the bounds of epoch e, in file order
RECURSIVE InBoundsSamples(_, _, _)
InBoundsSamples(e, n, j) ==
    IF j = 0 THEN <<>>
    ELSE InBoundsSamples(e, n, j - 1)
            \o (IF Within(EpTs(j), ep.mda_epochs[e])
                THEN [k \in 1 .. Len(channel_dict[n]) |-> EpSample(j, channel_dict[n][k])]
                ELSE <<>>)

\* C21: when nrd2mda_epochs has returned 0 on a file whose timestamps never go
\* down, every container of every selected epoch holds the samples of exactly
\* the packets of the file within the bounds of the epoch, once each and in
\* file order, whatever the batch size and wherever the read loop stopped.
C21_EpochsComplete ==
    (ep.pc = "done" /\ ep.returned = <<0>> /\ NonDecreasing) =>
        \A e \in 1 .. Len(ep.nts) : \A n \in 1 .. Len(channel_dict) :
            ep.nts[e][n].data = InBoundsSamples(e, n, FilePackets)

\* overlapping epochs A = [104, 105] and C = [105, 106]; the loop stopped with
\* a batch read and not processed
C21_Witness ==
    /\ ep.pc = "done" /\ ep.returned = <<0>>
    /\ NonDecreasing
    /\ FilePackets = 4
    /\ Processed < FilePackets
    /\ Len(ep.nts) = 2
    /\ ep.mda_epochs[1].name = "A" /\ ep.mda_epochs[2].name = "C"
    /\ \E j \in 1 .. FilePackets : InContainer(1, 2, j) /\ InContainer(2, 2, j)
    /\ \E j \in 1 .. FilePackets : ~InContainer(1, 2, j) /\ InContainer(2, 2, j)

\* ------------------------------------------------------------ claims about unknown epochs
\* the names asked for, a single string standing for itself
Requested ==
    IF ep.arg.is_str THEN {ep.arg.str}
    ELSE {ep.arg.list[i] : i \in 1 .. Len(ep.arg.list)}

\* the names of the "Epoch" lines of the defaults file
Present == {def_lines[i].name : i \in {k \in 1 .. Len(def_lines) : def_lines[k].is_epoch}}

\* C22: when none of the names asked for is in the defaults file,
\* nrd2mda_epochs returns -1 with no container created and the capture file
\* not opened; otherwise it returns 0 with the containers of exactly the epochs
\* asked for that are in the defaults file.
C22_UnknownEpochs ==
    /\ (Requested \cap Present = {}) => (ep.nts = <<>> /\ ~ep.opened)
    /\ ep.pc = "done" =>
          IF Requested \cap Present = {}
          THEN ep.returned = <<-1>>
          ELSE /\ ep.returned = <<0>>
               /\ ep.opened
               /\ Len(ep.nts) = Cardinality(Requested \cap Present)
               /\ {ep.mda_epochs[i].name : i \in 1 .. Len(ep.mda_epochs)}
                     = Requested \cap Present

C22_Witness ==
    /\ ep.pc = "done"
    /\ ep.arg.list = <<"Z">>
    /\ ep.returned = <<-1>>
    /\ FilePackets >= 2

\* ------------------------------------------------------------ claims about the result of read_csc
\* the nominal rates of the records
NominalRates == {csc.data[i].Fs : i \in 1 .. Len(csc.data)}

\* C23: when the nominal rate is not the same in every record, or
\* assume_same_fs is False, read_csc returns 'header' and 'packets' and nothing
\* else: no trace, no rate, no t0.
C23_NoReconstruction ==
    (csc.pc \notin {"idle", "start"}
        /\ (~csc.assume_same_fs \/ Cardinality(NominalRates) > 1)) =>
        /\ csc.pc = "done"
        /\ csc.keys = {"header", "packets"}
        /\ csc.trace = <<>>

C23_Witness ==
    /\ csc.pc = "done"
    /\ csc.assume_same_fs
    /\ Len(csc.data) >= 2
    /\ Cardinality(NominalRates) = 2
    /\ csc.keys = {"header", "packets"}

\* ------------------------------------------------------------ claims about the rate estimate
\* pairs of consecutive records, named by the first: those whose step is longer
\* than 512 samples at the nominal rate, and the others
GapPairs ==
    {i \in 1 .. Len(csc.data) - 1 :
        (csc.data[i + 1].timestamp - csc.data[i].timestamp) * csc.data[1].Fs
            > SampPerPacket * 1000000}

RunPairs == (1 .. Len(csc.data) - 1) \ GapPairs

\* read_csc has returned a trace built from more than one run
GapCaseDone == csc.pc = "done" /\ "trace" \in csc.keys /\ GapPairs # {}

RECURSIVE SumNs(_)
SumNs(i) ==
    IF i = 0 THEN 0 ELSE SumNs(i - 1) + (IF i \in RunPairs THEN csc.data[i].Ns ELSE 0)

RECURSIVE SumUs(_)
SumUs(i) ==
    IF i = 0 THEN 0
    ELSE SumUs(i - 1)
            + (IF i \in RunPairs THEN csc.data[i + 1].timestamp - csc.data[i].timestamp ELSE 0)

\* the sum over the pairs inside runs of samples per second of the pair
RECURSIVE SumPairRates(_)
SumPairRates(i) ==
    IF i = 0 THEN <<0, 1>>
    ELSE IF i \in RunPairs
         THEN FAdd(SumPairRates(i - 1),
                   Frac(csc.data[i].Ns * 1000000,
                        csc.data[i + 1].timestamp - csc.data[i].timestamp))
         ELSE SumPairRates(i - 1)

SameFraction(a, b) == a[1] * b[2] = b[1] * a[2]

\* one run per gap and one more
RunsSplitAtGaps == Len(csc.Npad) = Cardinality(GapPairs)

C25_RateAndTraceAlways ==
    (csc.pc \notin {"idle", "start"} /\ csc.assume_same_fs
        /\ Len(csc.data) >= 2 /\ Cardinality(NominalRates) = 1) =>
        /\ csc.pc = "done"
        /\ {"Fs", "trace"} \subseteq csc.keys
        /\ csc.Fs[2] # 0
        /\ csc.trace # <<>>

\* ------------------------------------------------------------ nrd2mda_fast
\* The names of nrd2mda_fast are its parameters and the names its body assigns;
\* channels is assigned in the body (line 636), so it is a local name, bound
\* only once that line has run. A statement that reads a local name not yet
\* bound raises UnboundLocalError.
MdaFastParams ==
    {"fname", "fmdaname", "channel_list", "max_pkts", "buffer_size", "start_ts", "stop_ts"}

\* nrd_packet = make_nrd_packet(channels): the names it reads and binds
MakeLayout == [reads |-> {"channels"}, binds |-> {"nrd_packet"}]

\* a statement run with the names `bound` bound
Exec(stmt, bound) ==
    IF stmt.reads \subseteq bound
    THEN [raised |-> FALSE, bound |-> bound \cup stmt.binds]
    ELSE [raised |-> TRUE, bound |-> bound]

MdaFastLists == {<<0>>, <<1, 0>>}

MdaFastCaps == {-1, 1, 2, 3, 10}

MdaFastBuffers == {1, 2, 3, 7}

\* -1 for no bound, or a timestamp
MdaFastStarts == {-1, 104}

MdaFastStops == {-1, 105}

\* nrd2mda_fast called: its parameters bound, nothing opened
InitMdaFast ==
    /\ EcIdle
    /\ fast = FastIdle
    /\ val = ValIdle
    /\ ep = EpIdle
    /\ csc = CscIdle
    /\ \E cl \in MdaFastLists, cap \in MdaFastCaps, bs \in MdaFastBuffers,
          a \in MdaFastStarts, b \in MdaFastStops :
          mdaf = [MdaFastIdle EXCEPT !.pc = "start", !.bound = MdaFastParams,
                                     !.channel_list = cl, !.max_pkts = cap,
                                     !.buffer_size = bs, !.start_ts = a, !.stop_ts = b]

\* the call from its first statement, the construction of the packet layout at
\* line 613, on: the statement raises, so the clamp, the output file and the
\* read loop that follow are never run
MdaFastCall ==
    /\ mdaf.pc = "start"
    /\ \E r \in {Exec(MakeLayout, mdaf.bound)} :
          mdaf' = IF r.raised
                  THEN [mdaf EXCEPT !.pc = "raised", !.error = "UnboundLocalError"]
                  ELSE [mdaf EXCEPT !.pc = "layout", !.bound = r.bound]
    /\ UNCHANGED <<ecVars, fast, val, ep, csc>>

NextMdaFast == MdaFastCall

SpecMdaFast == InitMdaFast /\ [][NextMdaFast]_vars

\* ------------------------------------------------------------ claims about the packet layout
\* C26: nrd2mda_fast has the channel count when it constructs the packet
\* layout, the construction does not fail and the call goes on towards the read
\* loop.
C26_LayoutAfterChannelCount ==
    mdaf.pc \notin {"idle", "start"} =>
        /\ "channels" \in mdaf.bound
        /\ "nrd_packet" \in mdaf.bound
        /\ mdaf.error = ""

====
